---- MODULE Spec2Model ----
(***************************************************************************)
(* Model of tools/texture_atlas_generator.py: one process run of main(),   *)
(* the TextureAtlasGenerator it builds, and the files the run leaves on    *)
(* disk.  Line numbers in comments refer to that file.                     *)
(***************************************************************************)
EXTENDS Integers, Sequences, FiniteSets, TLC

\* ------------------------------------------------------------------------
\* Bounds of the model
\* ------------------------------------------------------------------------
\* largest number of command-line words after the two positional arguments
MaxOpt == 4
\* largest number of process runs over the same file system
MaxRuns == 2

\* ------------------------------------------------------------------------
\* Program constants
\* ------------------------------------------------------------------------
\* tile_size = 16 (line 135, and the default of __init__, line 18)
DefaultTileSize == 16
\* atlas_size = 4096 (line 136, and the default of __init__, line 18)
DefaultAtlasSize == 4096

\* ------------------------------------------------------------------------
\* Paths: a file name is a sequence of characters, ordered by code point
\* ------------------------------------------------------------------------
Ord == [c \in {".", "B", "a", "b", "c", "g", "n", "p", "t", "x"} |->
          CASE c = "." -> 46 [] c = "B" -> 66 [] c = "a" -> 97
            [] c = "b" -> 98 [] c = "c" -> 99 [] c = "g" -> 103
            [] c = "n" -> 110 [] c = "p" -> 112 [] c = "t" -> 116
            [] c = "x" -> 120]

DotPng == <<".", "p", "n", "g">>
\* "B.png", "a.b.png", "a.png": the files the glob can find
PngNames == { <<"B">> \o DotPng, <<"a", ".", "b">> \o DotPng, <<"a">> \o DotPng }
\* "c.txt": a file of the input directory the glob must not find
OtherNames == { <<"c", ".", "t", "x", "t">> }
FileNames == PngNames \cup OtherNames

\* str < str of Python, on two file names of the same directory
\* (Path.__lt__ compares the parts, which differ in the name only)
PathLess(p, q) ==
    \E k \in 1..(Len(p) + 1) :
        /\ k <= Len(q)
        /\ \A j \in 1..(k - 1) : j <= Len(p) /\ p[j] = q[j]
        /\ \/ k = Len(p) + 1
           \/ k <= Len(p) /\ Ord[p[k]] < Ord[q[k]]

\* insertion of one path into a sorted list, after the elements not above it
RECURSIVE InsertPath(_, _)
InsertPath(p, s) ==
    IF s = <<>> THEN <<p>>
    ELSE IF PathLess(p, Head(s)) THEN <<p>> \o s
    ELSE <<Head(s)>> \o InsertPath(p, Tail(s))

RECURSIVE SortFrom(_, _)
SortFrom(s, acc) ==
    IF s = <<>> THEN acc ELSE SortFrom(Tail(s), InsertPath(Head(s), acc))

\* a plausible slip: the listing is used in the order the directory gives it
SortedUnsorted(listing) == listing

\* sorted(list(...)) of line 47
Sorted(listing) == SortFrom(listing, <<>>)

\* the pattern "*.png" of line 47: the name ends with ".png"
MatchPng(name) ==
    /\ Len(name) >= Len(DotPng)
    /\ SubSeq(name, Len(name) - Len(DotPng) + 1, Len(name)) = DotPng

\* position of the last "." of a name, 0 when there is none (str.rfind)
LastDot(name) ==
    LET dots == { i \in 1..Len(name) : name[i] = "." }
    IN IF dots = {} THEN 0 ELSE CHOOSE i \in dots : \A j \in dots : j <= i

\* a plausible slip: the whole file name is written
StemWithSuffix(name) == name

\* Path.stem of line 108: the name without its last suffix; a leading or a
\* trailing dot starts no suffix
Stem(name) ==
    LET i == LastDot(name)
    IN IF 1 < i /\ i < Len(name) THEN SubSeq(name, 1, i - 1) ELSE name

\* ------------------------------------------------------------------------
\* Command line
\* ------------------------------------------------------------------------
FlagTile == "--tile-size"
FlagAtlas == "--atlas-size"
\* words that may follow the positional arguments
OptWords == {FlagTile, FlagAtlas, "0", "2", "5"}

\* int(word) of lines 141 and 143, on the words int accepts
IntOf == [w \in {"0", "2", "5"} |-> CASE w = "0" -> 0 [] w = "2" -> 2 [] w = "5" -> 5]
IsInt(w) == w \in DOMAIN IntOf

\* range(3, len(sys.argv), 2) of line 139: the next word examined
ParseStep(j) == j + 2

\* lines 139-143 from word j on (argv[j] is sys.argv[j-1]); st holds
\* tile_size, atlas_size and the exception int() raised, if any
RECURSIVE ParseFrom(_, _, _)
ParseFrom(av, j, st) ==
    IF j > Len(av) \/ st.exc # "none" THEN st
    ELSE IF av[j] = FlagTile /\ j + 1 <= Len(av)
         THEN IF IsInt(av[j + 1])
              THEN ParseFrom(av, ParseStep(j), [st EXCEPT !.tile = IntOf[av[j + 1]]])
              ELSE [st EXCEPT !.exc = "ValueError"]
    ELSE IF av[j] = FlagAtlas /\ j + 1 <= Len(av)
         THEN IF IsInt(av[j + 1])
              THEN ParseFrom(av, ParseStep(j), [st EXCEPT !.atlas = IntOf[av[j + 1]]])
              ELSE [st EXCEPT !.exc = "ValueError"]
    ELSE ParseFrom(av, ParseStep(j), st)

\* lines 135-143
ParseOpts(av) ==
    ParseFrom(av, 4, [tile |-> DefaultTileSize, atlas |-> DefaultAtlasSize, exc |-> "none"])

\* argument vectors: sys.argv, the program name first
OptSeqs == UNION { [1..n -> OptWords] : n \in 0..MaxOpt }
Argvs == { <<"prog">>, <<"prog", "in">> } \cup { <<"prog", "in", "out">> \o o : o \in OptSeqs }
\* well-formed option lists, one for each grid geometry of interest
ConfigOpts == { <<>>,
                <<FlagTile, "5">>,
                <<FlagTile, "2", FlagAtlas, "5">>,
                <<FlagAtlas, "2", FlagTile, "2">>,
                <<FlagTile, "5", FlagAtlas, "2">>,
                <<FlagTile, "2", FlagAtlas, "0">> }
ConfigArgvs == { <<"prog", "in", "out">> \o o : o \in ConfigOpts }

\* ------------------------------------------------------------------------
\* Grid geometry and metadata numbers
\* ------------------------------------------------------------------------
\* a plausible slip: the quotient is rounded up
TilesPerRowCeiling(a, t) == (a + t - 1) \div t

\* atlas_size // tile_size of line 32, for tile_size > 0
TilesPerRow(a, t) == a \div t

\* a plausible slip: one cell too many
MaxTilesPlusOne(tpr) == tpr * tpr + 1

\* max_tiles of line 53
MaxTiles(tpr) == tpr * tpr

\* a plausible slip: the slice keeps the last n files
TruncateTail(files, n) == SubSeq(files, Len(files) - n + 1, Len(files))

\* texture_files[:max_tiles] of line 57, for 0 <= n < len(texture_files)
Truncate(files, n) == SubSeq(files, 1, n)

\* a plausible slip: an empty list is not an error
NoInputNever(files) == FALSE

\* "if not texture_files" of line 48
NoInput(files) == Len(files) = 0

\* a plausible slip: the divisor is off by one
RowOffByOne(i, tpr) == i \div (tpr + 1)

\* idx // tiles_per_row of lines 64 and 103, for tiles_per_row > 0
Row(i, tpr) == i \div tpr

\* idx % tiles_per_row of lines 65 and 104, for tiles_per_row > 0
Col(i, tpr) == i % tpr

Million == 1000000

\* f"{n / d:.6f}" of line 108 in millionths, for 0 <= n and 0 < d: the
\* quotient rounded to six decimals, an exact half to the even digit (for the
\* divisors reached here a half arises only when d is a power of two, where
\* the float n / d is exact)
Fmt6(n, d) ==
    LET q == (n * Million) \div d
        r2 == 2 * ((n * Million) % d)
    IN IF r2 > d \/ (r2 = d /\ q % 2 = 1) THEN q + 1 ELSE q

\* a plausible slip: a tile that cannot be decoded is skipped over silently
LoadFailsNever(state) == FALSE

\* Image.open / paste of lines 70-75 raise on a file that is no image
LoadFails(state) == state = "corrupt"

\* the data lines of lines 102-108 for the first k files
MetaLines(files, k, tpr) ==
    [ n \in 1..k |->
        [ stem |-> Stem(files[n]),
          index |-> n - 1,
          u |-> Fmt6(Col(n - 1, tpr), tpr),
          v |-> Fmt6(Row(n - 1, tpr), tpr) ] ]

\* all orders in which a directory listing may return the files of S
Listings(S) ==
    { s \in [1..Cardinality(S) -> S] : \A i, j \in 1..Cardinality(S) : i # j => s[i] # s[j] }

\* ------------------------------------------------------------------------
\* State
\* ------------------------------------------------------------------------
VARIABLES
    argv,           \* sys.argv
    dirExists,      \* the input directory exists
    dirFiles,       \* its files: "absent", "valid" (an image) or "corrupt"
    outDirExists,   \* the parent directory of output_file exists
    atlasFile,      \* the file at output_file
    metaFile,       \* the file at output_file.with_suffix('.txt')
    run,            \* number of the current process run
    pc,             \* position of the run
    tile_size, atlas_size, tiles_per_row,   \* the generator's fields
    texture_files,  \* local of generate
    warned,         \* the warning of line 56 was printed
    atlas,          \* the image in memory: the regions painted so far
    idx,            \* loop variable of line 63
    placed,         \* the progress lines of line 76, with their row and col
    err,            \* the exception caught at line 90
    result,         \* what generate returned
    exc,            \* the exception that left main
    exitCode,       \* exit status of the process, -1 while it runs
    prev            \* output of the previous run

vars == << argv, dirExists, dirFiles, outDirExists, atlasFile, metaFile, run, pc,
           tile_size, atlas_size, tiles_per_row, texture_files, warned, atlas, idx,
           placed, err, result, exc, exitCode, prev >>

fsVars == << dirExists, dirFiles, outDirExists, atlasFile, metaFile >>
genVars == << texture_files, warned, atlas, idx, placed, err, result >>
cfgVars == << tile_size, atlas_size, tiles_per_row >>

NoAtlasFile == [exists |-> FALSE, by |-> 0, complete |-> FALSE, cells |-> {}]
NoMetaFile == [exists |-> FALSE, by |-> 0, complete |-> FALSE, total |-> 0, lines |-> <<>>]
NoPrev == [placed |-> <<>>, cells |-> {}, total |-> 0, lines |-> <<>>]

\* the input directory of the argument-vector family: every file present
FullDir == [n \in FileNames |-> "valid"]
Dirs == { d \in [FileNames -> {"absent", "valid", "corrupt"}] :
            \A n \in OtherNames : d[n] # "corrupt" }

Init ==
    /\ argv \in Argvs
    /\ dirExists \in BOOLEAN
    /\ dirFiles \in Dirs
    /\ ~dirExists => \A n \in FileNames : dirFiles[n] = "absent"
    \* every argument vector on one directory, every directory on the
    \* well-formed argument vectors
    /\ \/ dirExists /\ dirFiles = FullDir
       \/ argv \in ConfigArgvs
    /\ outDirExists = FALSE
    /\ atlasFile = NoAtlasFile
    /\ metaFile = NoMetaFile
    /\ run = 1
    /\ pc = "main"
    /\ tile_size = 0 /\ atlas_size = 0 /\ tiles_per_row = 0
    /\ texture_files = <<>>
    /\ warned = FALSE
    /\ atlas = {}
    /\ idx = 0
    /\ placed = <<>>
    /\ err = "none"
    /\ result = "none"
    /\ exc = "none"
    /\ exitCode = -1
    /\ prev = NoPrev

\* self.input_dir.glob("*.png") of line 47, as a set
Globbed == { n \in FileNames : dirFiles[n] # "absent" /\ MatchPng(n) }

\* ------------------------------------------------------------------------
\* main, lines 111-152
\* ------------------------------------------------------------------------
\* lines 124-131: too few arguments
MainUsage ==
    /\ pc = "main"
    /\ Len(argv) < 3
    /\ pc' = "exit"
    /\ exitCode' = 1
    /\ UNCHANGED << argv, fsVars, run, cfgVars, genVars, exc, prev >>

\* lines 133-143: the options; an exception of int() leaves main, and the
\* interpreter ends the process with status 1
MainParse ==
    /\ pc = "main"
    /\ Len(argv) >= 3
    /\ LET st == ParseOpts(argv)
       IN IF st.exc # "none"
          THEN /\ pc' = "exit"
               /\ exc' = st.exc
               /\ exitCode' = 1
               /\ UNCHANGED << tile_size, atlas_size >>
          ELSE /\ pc' = "construct"
               /\ tile_size' = st.tile
               /\ atlas_size' = st.atlas
               /\ UNCHANGED << exc, exitCode >>
    /\ UNCHANGED << argv, fsVars, run, tiles_per_row, genVars, prev >>

\* line 145 and __init__, lines 28-32
Construct ==
    /\ pc = "construct"
    /\ IF tile_size = 0
       THEN /\ pc' = "exit"
            /\ exc' = "ZeroDivisionError"
            /\ exitCode' = 1
            /\ UNCHANGED tiles_per_row
       ELSE /\ pc' = "generate"
            /\ tiles_per_row' = TilesPerRow(atlas_size, tile_size)
            /\ UNCHANGED << exc, exitCode >>
    /\ UNCHANGED << argv, fsVars, run, tile_size, atlas_size, genVars, prev >>

\* lines 147-152
MainReturn ==
    /\ pc = "return"
    /\ pc' = "exit"
    /\ exitCode' = IF result = "True" THEN 0 ELSE 1
    /\ UNCHANGED << argv, fsVars, run, cfgVars, genVars, exc, prev >>

\* ------------------------------------------------------------------------
\* TextureAtlasGenerator.generate, lines 34-92
\* ------------------------------------------------------------------------
\* generate returns False through the handler of lines 90-92
Caught(e) ==
    /\ err' = e
    /\ result' = "False"
    /\ pc' = "return"

\* lines 42-44: the input directory is missing
GenNoDir ==
    /\ pc = "generate"
    /\ ~dirExists
    /\ result' = "False"
    /\ pc' = "return"
    /\ UNCHANGED << argv, fsVars, run, cfgVars, texture_files, warned, atlas, idx,
                    placed, err, exc, exitCode, prev >>

\* lines 47-57: glob in whatever order the directory lists its files, sort,
\* reject an empty list, warn and truncate beyond max_tiles
GenDiscover ==
    /\ pc = "generate"
    /\ dirExists
    /\ \E listing \in Listings(Globbed) :
         LET found == Sorted(listing)
             max_tiles == MaxTiles(tiles_per_row)
         IN IF NoInput(found)
            THEN /\ result' = "False"
                 /\ pc' = "return"
                 /\ UNCHANGED << texture_files, warned >>
            ELSE /\ pc' = "compose"
                 /\ warned' = (Len(found) > max_tiles)
                 /\ texture_files' = IF Len(found) > max_tiles
                                     THEN Truncate(found, max_tiles) ELSE found
                 /\ UNCHANGED result
    /\ UNCHANGED << argv, fsVars, run, cfgVars, atlas, idx, placed, err, exc, exitCode, prev >>

\* a plausible slip: the blank canvas is written to output_file at once
GenNewAtlasSaving ==
    /\ pc = "compose"
    /\ atlas' = {}
    /\ idx' = 0
    /\ pc' = "paint"
    /\ outDirExists' = TRUE
    /\ atlasFile' = [exists |-> TRUE, by |-> run, complete |-> TRUE, cells |-> {}]
    /\ UNCHANGED << argv, dirExists, dirFiles, metaFile, run, cfgVars, texture_files,
                    warned, placed, err, result, exc, exitCode, prev >>

\* line 61: the transparent canvas
GenNewAtlas ==
    /\ pc = "compose"
    /\ atlas' = {}
    /\ idx' = 0
    /\ pc' = "paint"
    /\ UNCHANGED << argv, fsVars, run, cfgVars, texture_files, warned, placed, err,
                    result, exc, exitCode, prev >>

\* lines 63-76: one turn of the loop; a file that is no image raises, and so
\* would a division by tiles_per_row = 0
GenPaintTile ==
    /\ pc = "paint"
    /\ idx < Len(texture_files)
    /\ LET f == texture_files[idx + 1]
       IN IF tiles_per_row = 0
          THEN Caught("ZeroDivisionError") /\ UNCHANGED << atlas, idx, placed >>
          ELSE IF LoadFails(dirFiles[f])
          THEN Caught("load") /\ UNCHANGED << atlas, idx, placed >>
          ELSE LET row == Row(idx, tiles_per_row)
                   col == Col(idx, tiles_per_row)
                   x == col * tile_size
                   y == row * tile_size
               IN /\ atlas' = { r \in atlas : ~(r.x = x /\ r.y = y) }
                                \cup { [x |-> x, y |-> y, name |-> f] }
                  /\ placed' = Append(placed, [name |-> f, index |-> idx, row |-> row,
                                               col |-> col, x |-> x, y |-> y])
                  /\ idx' = idx + 1
                  /\ UNCHANGED << err, result, pc >>
    /\ UNCHANGED << argv, fsVars, run, cfgVars, texture_files, warned, exc, exitCode, prev >>

\* line 79: mkdir(parents=True, exist_ok=True); creating the directory may
\* be refused
GenMkdir ==
    /\ pc = "paint"
    /\ idx = Len(texture_files)
    /\ \E ok \in IF outDirExists THEN {TRUE} ELSE BOOLEAN :
         IF ok
         THEN /\ outDirExists' = TRUE
              /\ pc' = "save"
              /\ UNCHANGED << err, result >>
         ELSE Caught("mkdir") /\ UNCHANGED outDirExists
    /\ UNCHANGED << argv, dirExists, dirFiles, atlasFile, metaFile, run, cfgVars,
                    texture_files, warned, atlas, idx, placed, exc, exitCode, prev >>

\* line 80: atlas.save; a failed save leaves the path as it was or leaves an
\* incomplete file
GenSave ==
    /\ pc = "save"
    /\ \E outcome \in {"saved", "refused", "broken"} :
         CASE outcome = "saved" ->
                /\ atlasFile' = [exists |-> TRUE, by |-> run, complete |-> TRUE,
                                 cells |-> atlas]
                /\ pc' = "metadata"
                /\ UNCHANGED << err, result >>
           [] outcome = "refused" ->
                Caught("save") /\ UNCHANGED atlasFile
           [] outcome = "broken" ->
                /\ Caught("save")
                /\ atlasFile' = [exists |-> TRUE, by |-> run, complete |-> FALSE,
                                 cells |-> {}]
    /\ UNCHANGED << argv, dirExists, dirFiles, outDirExists, metaFile, run, cfgVars,
                    texture_files, warned, atlas, idx, placed, exc, exitCode, prev >>

\* lines 84-88 and _generate_metadata, lines 94-108: open(..., 'w') may be
\* refused (written -1 below); once open the file is truncated, and a write
\* that fails leaves the header and the lines written before it
GenMetadata ==
    /\ pc = "metadata"
    /\ LET k == Len(texture_files)
           upto == IF tiles_per_row = 0 THEN 0 ELSE k
       IN \E outcome \in (-1)..upto :
            IF outcome = -1
            THEN Caught("metadata") /\ UNCHANGED metaFile
            ELSE LET done == outcome = k
                 IN /\ metaFile' = [exists |-> TRUE, by |-> run, complete |-> done,
                                    total |-> k,
                                    lines |-> MetaLines(texture_files, outcome, tiles_per_row)]
                    /\ IF done
                       THEN /\ result' = "True"
                            /\ pc' = "return"
                            /\ UNCHANGED err
                       ELSE Caught(IF tiles_per_row = 0 THEN "ZeroDivisionError"
                                   ELSE "metadata")
    /\ UNCHANGED << argv, dirExists, dirFiles, outDirExists, atlasFile, run, cfgVars,
                    texture_files, warned, atlas, idx, placed, exc, exitCode, prev >>

\* ------------------------------------------------------------------------
\* The operator runs the tool again after a successful run, with the same
\* arguments on the same directory; the files of the first run are on disk
\* ------------------------------------------------------------------------
Rerun ==
    /\ pc = "exit"
    /\ exitCode = 0
    /\ run < MaxRuns
    /\ run' = run + 1
    /\ prev' = [placed |-> placed, cells |-> atlasFile.cells,
                total |-> metaFile.total, lines |-> metaFile.lines]
    /\ pc' = "main"
    /\ tile_size' = 0 /\ atlas_size' = 0 /\ tiles_per_row' = 0
    /\ texture_files' = <<>>
    /\ warned' = FALSE
    /\ atlas' = {}
    /\ idx' = 0
    /\ placed' = <<>>
    /\ err' = "none"
    /\ result' = "none"
    /\ exc' = "none"
    /\ exitCode' = -1
    /\ UNCHANGED << argv, fsVars >>

Next ==
    \/ MainUsage
    \/ MainParse
    \/ Construct
    \/ GenNoDir
    \/ GenDiscover
    \/ GenNewAtlas
    \/ GenPaintTile
    \/ GenMkdir
    \/ GenSave
    \/ GenMetadata
    \/ MainReturn
    \/ Rerun

Spec == Init /\ [][Next]_vars

\* ------------------------------------------------------------------------
\* Vocabulary of the properties
\* ------------------------------------------------------------------------
\* the run is over and generate was called
GenerateReturned == pc \in {"return", "exit"} /\ result # "none"
\* file f was written, wholly or in part, by the current run
WrittenByRun(f) == f.exists /\ f.by = run
\* number of discovered files that sort before n
Rank(n) == Cardinality({ m \in Globbed : PathLess(m, n) })
\* the first k discovered files in file-name order
FirstFiles(k) == { n \in Globbed : Rank(n) < k }
Capacity == tiles_per_row * tiles_per_row
Min(a, b) == IF a < b THEN a ELSE b
Abs(a) == IF a < 0 THEN 0 - a ELSE a

\* ------------------------------------------------------------------------
\* C1
\* ------------------------------------------------------------------------
\* C1 as stated, on the runs with an atlas size of at least 1 in which
\* nothing but the decoding of a tile fails: whenever some discovered tile, at any position of the sorted list,
\* cannot be decoded, generate returns False and the run leaves neither an
\* atlas file nor a metadata file.
C1_AnyCorruptTileFails ==
    (/\ GenerateReturned
     /\ atlas_size >= 1
     /\ err \in {"none", "load"}
     /\ \E n \in Globbed : dirFiles[n] = "corrupt")
        => /\ result = "False"
           /\ ~WrittenByRun(atlasFile)
           /\ ~WrittenByRun(metaFile)

\* C1 as amended: whenever one of the first min(N, capacity) tiles of the
\* sorted list cannot be decoded, generate returns False and the run writes
\* neither the atlas file nor the metadata file.
C1_CorruptPlacedTileFails ==
    (GenerateReturned /\ \E n \in FirstFiles(Capacity) : dirFiles[n] = "corrupt")
        => /\ result = "False"
           /\ ~WrittenByRun(atlasFile) /\ ~atlasFile.exists
           /\ ~WrittenByRun(metaFile) /\ ~metaFile.exists

\* C1 witness: the third of three tiles failed to load after two were painted
C1_Witness ==
    /\ pc = "exit" /\ result = "False" /\ err = "load"
    /\ Len(placed) = 2 /\ Len(texture_files) = 3
    /\ ~atlasFile.exists /\ ~metaFile.exists

\* ------------------------------------------------------------------------
\* C2
\* ------------------------------------------------------------------------
\* C2, on the runs in which the saving of the atlas itself did not fail: a
\* run of generate that returned False leaves neither an atlas file nor a
\* metadata file of its own on disk, and at the end of every run the atlas
\* file of the run exists exactly when its complete metadata file does.
C2_NoPartialOutput ==
    (GenerateReturned /\ err # "save")
        => /\ result = "False" => ~WrittenByRun(atlasFile) /\ ~WrittenByRun(metaFile)
           /\ WrittenByRun(atlasFile) <=> (WrittenByRun(metaFile) /\ metaFile.complete)

\* ------------------------------------------------------------------------
\* C3
\* ------------------------------------------------------------------------
\* C3: no exception leaves main; the run ends by main returning 0 when
\* generate returned True and 1 otherwise.
C3_NoExceptionEscapes ==
    /\ exc = "none"
    /\ pc = "exit" => /\ exitCode \in {0, 1}
                      /\ exitCode = 0 <=> result = "True"

\* ------------------------------------------------------------------------
\* C4
\* ------------------------------------------------------------------------
\* C4: after a successful run the placed tiles, the tiles of the atlas file
\* and the entries of the metadata file are exactly the first
\* min(N, capacity) discovered files in file-name order, each at the index
\* of its rank; the warning is printed exactly when N > capacity; and a run
\* that printed it and met no error returns True and exits with 0.
C4_CapacityTruncation ==
    LET k == Min(Cardinality(Globbed), Capacity)
    IN /\ (GenerateReturned /\ result = "True")
            => /\ Len(placed) = k
               /\ \A i \in 1..Len(placed) :
                     /\ placed[i].name \in Globbed
                     /\ Rank(placed[i].name) = i - 1
                     /\ placed[i].index = i - 1
               /\ { c.name : c \in atlasFile.cells } = FirstFiles(k)
               /\ WrittenByRun(atlasFile)
               /\ Len(metaFile.lines) = k
               /\ { metaFile.lines[i].stem \o DotPng : i \in 1..Len(metaFile.lines) }
                     = FirstFiles(k)
               /\ warned <=> Cardinality(Globbed) > Capacity
       /\ (pc = "exit" /\ warned /\ err = "none")
            => result = "True" /\ exitCode = 0

\* C4 witness: three tiles found, capacity 1, one tile placed, exit code 0
C4_Witness ==
    /\ pc = "exit" /\ exitCode = 0 /\ result = "True" /\ warned
    /\ Cardinality(Globbed) = 3 /\ Capacity = 1
    /\ Len(placed) = 1 /\ Len(metaFile.lines) = 1

\* ------------------------------------------------------------------------
\* C5
\* ------------------------------------------------------------------------
\* C5: a run with fewer than two positional arguments, with a missing input
\* directory or with no .png file in it ends with exit code 1 and has
\* created no atlas file, no metadata file and no output directory.
C5_PreconditionFailure ==
    (pc = "exit" /\ (Len(argv) < 3 \/ ~dirExists \/ Globbed = {}))
        => /\ exitCode = 1
           /\ ~atlasFile.exists
           /\ ~metaFile.exists
           /\ ~outDirExists

\* C5 witness: a directory that holds a file but no .png file
C5_Witness ==
    /\ pc = "exit" /\ exitCode = 1 /\ result = "False" /\ err = "none"
    /\ dirExists /\ Globbed = {}
    /\ \E n \in OtherNames : dirFiles[n] = "valid"
    /\ ~outDirExists /\ ~atlasFile.exists /\ ~metaFile.exists

\* ------------------------------------------------------------------------
\* C6
\* ------------------------------------------------------------------------
\* C6: every placed tile has row * tilesPerRow + col = index, an index in
\* 0..capacity-1 and the offset (col * tileSize, row * tileSize); no two
\* placed tiles share an index or an offset, and no region of the canvas is
\* painted twice.
C6_IndexBijection ==
    /\ \A i \in 1..Len(placed) :
          LET p == placed[i]
          IN /\ p.row * tiles_per_row + p.col = p.index
             /\ 0 <= p.index /\ p.index < Capacity
             /\ p.x = p.col * tile_size /\ p.y = p.row * tile_size
    /\ \A i, j \in 1..Len(placed) :
          i # j => /\ placed[i].index # placed[j].index
                   /\ << placed[i].x, placed[i].y >> # << placed[j].x, placed[j].y >>
    /\ pc = "paint" => Cardinality(atlas) = Len(placed)

\* C6 witness: three tiles on a grid of two per row, the third in row 1
C6_Witness ==
    /\ tiles_per_row = 2 /\ Len(placed) = 3
    /\ placed[3].row = 1 /\ placed[3].col = 0 /\ placed[2].col = 1

\* ------------------------------------------------------------------------
\* C7
\* ------------------------------------------------------------------------
\* C7: every placed tile has 0 <= col < tilesPerRow and
\* 0 <= row < tilesPerRow, and every line of the metadata file carries
\* 0 <= u < 1 and 0 <= v < 1 (u and v in millionths).
C7_UvRange ==
    /\ \A i \in 1..Len(placed) :
          /\ 0 <= placed[i].col /\ placed[i].col < tiles_per_row
          /\ 0 <= placed[i].row /\ placed[i].row < tiles_per_row
    /\ \A i \in 1..Len(metaFile.lines) :
          /\ 0 <= metaFile.lines[i].u /\ metaFile.lines[i].u < Million
          /\ 0 <= metaFile.lines[i].v /\ metaFile.lines[i].v < Million

\* C7 witness: an atlas size that is no multiple of the tile size, with a
\* metadata line in the second row and one in the second column
C7_Witness ==
    /\ tile_size >= 1 /\ atlas_size >= 1
    /\ atlas_size % tile_size # 0
    /\ metaFile.complete /\ Len(metaFile.lines) = 3
    /\ metaFile.lines[2].u > 0 /\ metaFile.lines[3].v > 0

\* ------------------------------------------------------------------------
\* C8
\* ------------------------------------------------------------------------
\* C8: a second run on the same directory with the same arguments, in
\* whatever order the directory lists its files, prints the placements of
\* the first run in the same order and, when it succeeds, leaves the same
\* atlas content and the same metadata text.
C8_Determinism ==
    run > 1 =>
        /\ Len(placed) <= Len(prev.placed)
        /\ \A i \in 1..Len(placed) : placed[i] = prev.placed[i]
        /\ (pc = "exit" /\ result = "True")
              => /\ placed = prev.placed
                 /\ WrittenByRun(atlasFile) /\ atlasFile.cells = prev.cells
                 /\ WrittenByRun(metaFile) /\ metaFile.lines = prev.lines
                 /\ metaFile.total = prev.total

\* C8 witness: a second successful run that placed three tiles
C8_Witness ==
    /\ run = 2 /\ pc = "exit" /\ result = "True"
    /\ Len(placed) = 3 /\ atlasFile.by = 2 /\ metaFile.by = 2

\* ------------------------------------------------------------------------
\* C9
\* ------------------------------------------------------------------------
\* the parts of C9 that do not concern u and v: one line per placed tile in
\* index order 0..k-1, with the file name, less its ".png", of the tile
\* painted at that index, and the header's count equal to the number of
\* placed tiles
MetaMatchesPlaced ==
    /\ metaFile.complete /\ WrittenByRun(metaFile)
    /\ Len(metaFile.lines) = Len(placed)
    /\ metaFile.total = Len(placed)
    /\ \A i \in 1..Len(placed) :
          /\ metaFile.lines[i].index = i - 1
          /\ metaFile.lines[i].index = placed[i].index
          /\ metaFile.lines[i].stem \o DotPng = placed[i].name
          /\ [x |-> placed[i].x, y |-> placed[i].y, name |-> placed[i].name]
                \in atlasFile.cells

\* C9 as stated: after a successful run the metadata matches the placed
\* tiles, and on every line (u * tilesPerRow * tileSize,
\* v * tilesPerRow * tileSize) is the pixel offset of the tile (u and v in
\* millionths, so the offset is multiplied by a million).
C9_MetadataExactOffsets ==
    (pc = "exit" /\ result = "True")
        => /\ MetaMatchesPlaced
           /\ \A i \in 1..Len(placed) :
                 /\ metaFile.lines[i].u * tiles_per_row * tile_size = placed[i].x * Million
                 /\ metaFile.lines[i].v * tiles_per_row * tile_size = placed[i].y * Million

\* C9 as amended: after a successful run the metadata matches the placed
\* tiles, and on every line u and v are col / tilesPerRow and
\* row / tilesPerRow rounded to six decimals, where
\* (col * tileSize, row * tileSize) is the pixel offset of the tile: the
\* products differ from the offset by at most half a millionth of the
\* atlas's grid width.
C9_MetadataRoundedOffsets ==
    (pc = "exit" /\ result = "True")
        => /\ MetaMatchesPlaced
           /\ \A i \in 1..Len(placed) :
                 /\ 2 * Abs(metaFile.lines[i].u * tiles_per_row * tile_size
                              - placed[i].x * Million) <= tiles_per_row * tile_size
                 /\ 2 * Abs(metaFile.lines[i].v * tiles_per_row * tile_size
                              - placed[i].y * Million) <= tiles_per_row * tile_size

\* C9 witness: a successful run whose second line carries a rounded u
C9_Witness ==
    /\ pc = "exit" /\ result = "True" /\ Len(placed) = 3
    /\ metaFile.lines[2].u * tiles_per_row # Million
    /\ metaFile.lines[2].stem \o DotPng = placed[2].name

\* ------------------------------------------------------------------------
\* C10
\* ------------------------------------------------------------------------
\* the generator has been constructed
Configured ==
    \/ pc \in {"generate", "compose", "paint", "save", "metadata", "return"}
    \/ pc = "exit" /\ result # "none"
\* the numbers n for which "flag n" appears after the positional arguments
FlagValues(flag) ==
    { IntOf[argv[j + 1]] :
        j \in { i \in 4..(Len(argv) - 1) : argv[i] = flag /\ IsInt(argv[i + 1]) } }

\* C10: the generator is configured with a tile size n for which
\* "--tile-size n" appears after the positional arguments, and with 16 when
\* there is none; likewise with the atlas size, "--atlas-size" and 4096;
\* wherever the flag stands and whatever stands before it.
C10_FlagsAtAnyPosition ==
    Configured
        => /\ IF FlagValues(FlagTile) = {}
              THEN tile_size = DefaultTileSize
              ELSE tile_size \in FlagValues(FlagTile)
           /\ IF FlagValues(FlagAtlas) = {}
              THEN atlas_size = DefaultAtlasSize
              ELSE atlas_size \in FlagValues(FlagAtlas)

\* ------------------------------------------------------------------------
\* C11
\* ------------------------------------------------------------------------
\* every file of texture_files has been painted, in increasing index order
AllPainted ==
    /\ idx = Len(texture_files)
    /\ Len(placed) = Len(texture_files)
    /\ \A i \in 1..Len(placed) :
          placed[i].index = i - 1 /\ placed[i].name = texture_files[i]

\* C11: within one run a tile is painted at the index that follows the
\* last painted one and before any file is written; the output directory
\* and the atlas file are written only after every tile has been painted;
\* the atlas file is written at most once, by the save step, with the
\* painted canvas; and the metadata file is written only after the atlas
\* file of the run has been saved.
C11_StageOrder ==
    [][ /\ (placed' # placed /\ run' = run)
            => /\ pc = "paint"
               /\ Len(placed') = Len(placed) + 1
               /\ placed'[Len(placed')].index = Len(placed)
               /\ \A i \in 1..Len(placed) : placed'[i] = placed[i]
               /\ ~WrittenByRun(atlasFile) /\ ~WrittenByRun(metaFile)
        /\ outDirExists' # outDirExists
            => AllPainted /\ ~WrittenByRun(atlasFile) /\ ~WrittenByRun(metaFile)
        /\ atlasFile' # atlasFile
            => /\ pc = "save"
               /\ AllPainted
               /\ ~WrittenByRun(atlasFile)
               /\ ~WrittenByRun(metaFile)
               /\ atlasFile'.complete => atlasFile'.cells = atlas
        /\ metaFile' # metaFile
            => /\ pc = "metadata"
               /\ AllPainted
               /\ WrittenByRun(atlasFile) /\ atlasFile.complete
               /\ ~WrittenByRun(metaFile)
      ]_vars

\* C11 witness: in a second run three tiles are painted and the atlas is
\* saved, while the metadata file on disk is still that of the first run
C11_Witness ==
    /\ run = 2 /\ pc = "metadata"
    /\ Len(placed) = 3 /\ AllPainted
    /\ WrittenByRun(atlasFile) /\ atlasFile.complete
    /\ metaFile.exists /\ metaFile.by = 1

\* ------------------------------------------------------------------------
\* C12
\* ------------------------------------------------------------------------
\* C12: every painted tile lies inside the canvas: 0 <= x,
\* x + tileSize <= atlasSize, 0 <= y and y + tileSize <= atlasSize, for the
\* progress lines and for the regions of the canvas and of the atlas file;
\* with capacity 0 no tile is placed.
C12_TilesInsideCanvas ==
    /\ \A i \in 1..Len(placed) :
          /\ tile_size >= 1 /\ atlas_size >= 1
          /\ 0 <= placed[i].x /\ placed[i].x + tile_size <= atlas_size
          /\ 0 <= placed[i].y /\ placed[i].y + tile_size <= atlas_size
    /\ \A c \in atlas \cup (IF WrittenByRun(atlasFile) THEN atlasFile.cells ELSE {}) :
          /\ 0 <= c.x /\ c.x + tile_size <= atlas_size
          /\ 0 <= c.y /\ c.y + tile_size <= atlas_size
    /\ (Configured /\ Capacity = 0) => placed = <<>> /\ atlas = {}

\* C12 witness: an atlas size that is no multiple of the tile size, with a
\* tile in the last column and one in the last row of the grid
C12_Witness ==
    /\ tile_size >= 1 /\ atlas_size >= 1
    /\ atlas_size % tile_size # 0
    /\ pc = "paint" /\ Len(placed) = 3
    /\ placed[2].x + tile_size = tiles_per_row * tile_size
    /\ placed[3].y + tile_size = tiles_per_row * tile_size
    /\ tiles_per_row * tile_size < atlas_size

====
